---- MODULE Spec2Model ----
(***************************************************************************)
(* Client-side cryptographic protocol layer of the sigil dashboard:        *)
(* key derivation, symmetric "entry" envelopes, hybrid RSA+AES "field"     *)
(* envelopes, private-key custody and the session-scoped key cache.        *)
(*                                                                         *)
(* Cryptography is modelled symbolically: a ciphertext is a term that      *)
(* records the key, the iv and the plaintext it was made from, and         *)
(* authenticated decryption succeeds exactly when key and iv match and the *)
(* term was not tampered with.  Text conversions (JSON.stringify/parse,    *)
(* TextEncoder/TextDecoder, base64) are modelled by what the platform      *)
(* does on a small alphabet of code units.                                 *)
(***************************************************************************)
EXTENDS Integers, Sequences, FiniteSets, TLC

(***************************************************************************)
(* Bounds                                                                  *)
(***************************************************************************)
MaxStrLen == 2
MaxPwLen == 1
NumIVs == 2
NumSalts == 2

(***************************************************************************)
(* JavaScript strings over a small alphabet of UTF-16 code units.          *)
(*   "a"    an ordinary BMP character                                      *)
(*   "NUL"  U+0000                                                         *)
(*   "BOM"  U+FEFF                                                         *)
(*   "HI"   a high surrogate, "LO" a low surrogate                         *)
(*   "FFFD" U+FFFD REPLACEMENT CHARACTER                                   *)
(***************************************************************************)
RECURSIVE SeqsUpTo(_, _)
SeqsUpTo(S, n) ==
  IF n = 0 THEN {<<>>}
  ELSE LET shorter == SeqsUpTo(S, n - 1)
       IN shorter \cup {Append(s, c) : s \in shorter, c \in S}

None == <<>>
Some(x) == <<x>>

Ok(v) == [ok |-> TRUE, val |-> v]
Err(e) == [ok |-> FALSE, err |-> e]

(***************************************************************************)
(* TextEncoder.encode: UTF-16 -> UTF-8.  A surrogate pair becomes one      *)
(* 4-byte scalar ("PAIR"); an unpaired surrogate is replaced by U+FFFD.    *)
(***************************************************************************)
RECURSIVE TextEncode(_)
TextEncode(s) ==
  IF s = <<>> THEN <<>>
  ELSE IF Len(s) >= 2 /\ s[1] = "HI" /\ s[2] = "LO"
       THEN <<"PAIR">> \o TextEncode(SubSeq(s, 3, Len(s)))
       ELSE <<IF s[1] \in {"HI", "LO"} THEN "FFFD" ELSE s[1]>> \o TextEncode(Tail(s))

(***************************************************************************)
(* new TextDecoder().decode: UTF-8 -> UTF-16 with the default              *)
(* ignoreBOM = false, so a leading U+FEFF is consumed.                     *)
(***************************************************************************)
RECURSIVE DecodeScalars(_)
DecodeScalars(b) ==
  IF b = <<>> THEN <<>>
  ELSE (IF b[1] = "PAIR" THEN <<"HI", "LO">> ELSE <<b[1]>>) \o DecodeScalars(Tail(b))

TextDecode(b) ==
  IF b # <<>> /\ b[1] = "BOM" THEN DecodeScalars(Tail(b)) ELSE DecodeScalars(b)

(***************************************************************************)
(* JSON values of a record: a record maps some of AllKeys to values        *)
(*   [t |-> "str", v |-> chars], [t |-> "num"], [t |-> "null"],            *)
(*   [t |-> "undef"] (undefined), [t |-> "nan"] (NaN).                     *)
(***************************************************************************)
Str(s) == [t |-> "str", v |-> s]
VNum == [t |-> "num"]
VNull == [t |-> "null"]
VUndef == [t |-> "undef"]
VNaN == [t |-> "nan"]

AllKeys == <<"email", "domain", "kty", "n", "d">>

(* variant: a stringify that emits unpaired surrogates raw                 *)
JsonEscapeRaw(s) == s

(* JSON.stringify of a string body: well-formed JSON.stringify escapes     *)
(* unpaired surrogates.                                                    *)
RECURSIVE JsonEscape(_)
JsonEscape(s) ==
  IF s = <<>> THEN <<>>
  ELSE IF Len(s) >= 2 /\ s[1] = "HI" /\ s[2] = "LO"
       THEN <<"HI", "LO">> \o JsonEscape(SubSeq(s, 3, Len(s)))
       ELSE <<CASE s[1] = "HI" -> "\\uD800"
                [] s[1] = "LO" -> "\\uDC00"
                [] OTHER -> s[1]>> \o JsonEscape(Tail(s))

JsonUnescape(s) ==
  [i \in 1..Len(s) |->
     CASE s[i] = "\\uD800" -> "HI"
       [] s[i] = "\\uDC00" -> "LO"
       [] OTHER -> s[i]]

JsonValue(v) ==
  CASE v.t = "str" -> <<"\"">> \o JsonEscape(v.v) \o <<"\"">>
    [] v.t = "num" -> <<"0">>
    [] v.t = "null" -> <<"null">>
    [] v.t = "nan" -> <<"null">>

(* JSON.stringify(object): own properties in order, undefined ones dropped *)
RECURSIVE JsonProps(_, _)
JsonProps(rec, i) ==
  IF i > Len(AllKeys) THEN <<>>
  ELSE LET k == AllKeys[i]
       IN (IF k \in DOMAIN rec /\ rec[k].t # "undef"
           THEN <<"K:" \o k>> \o JsonValue(rec[k])
           ELSE <<>>) \o JsonProps(rec, i + 1)

JsonStringify(rec) == <<"{">> \o JsonProps(rec, 1) \o <<"}">>

KeyOfToken(tok) == CHOOSE k \in {AllKeys[i] : i \in 1..Len(AllKeys)} : tok = "K:" \o k
IsKeyToken(tok) == \E i \in 1..Len(AllKeys) : tok = "K:" \o AllKeys[i]

(* JSON.parse of the text between the braces; "bad" on malformed text      *)
RECURSIVE ParseProps(_, _)
ParseProps(toks, acc) ==
  IF toks = <<>> THEN Err("SyntaxError")
  ELSE IF toks = <<"}">> THEN Ok(acc)
  ELSE IF ~IsKeyToken(toks[1]) \/ Len(toks) < 3 THEN Err("SyntaxError")
  ELSE LET k == KeyOfToken(toks[1])
           rest == Tail(toks)
       IN CASE rest[1] = "\"" ->
                 LET body == Tail(rest)
                     closing == {j \in 1..Len(body) : body[j] = "\""}
                 IN IF closing = {} THEN Err("SyntaxError")
                    ELSE LET j == CHOOSE x \in closing : \A y \in closing : x <= y
                         IN ParseProps(SubSeq(body, j + 1, Len(body)),
                                       (k :> Str(JsonUnescape(SubSeq(body, 1, j - 1)))) @@ acc)
            [] rest[1] = "0" -> ParseProps(Tail(rest), (k :> VNum) @@ acc)
            [] rest[1] = "null" -> ParseProps(Tail(rest), (k :> VNull) @@ acc)
            [] OTHER -> Err("SyntaxError")

JsonParse(text) ==
  IF text = <<>> \/ text[1] # "{" THEN Err("SyntaxError")
  ELSE ParseProps(Tail(text), <<>>)

(***************************************************************************)
(* Key derivation (crypto.ts: deriveKey, deriveAuthKey, sha256,            *)
(* getAuthKeyHash).  PBKDF2 is keyed through HMAC, which zero-pads a key   *)
(* shorter than its 64-byte block: trailing NUL bytes of the password do   *)
(* not change the derived bits.  (Passwords here are shorter than a block, *)
(* so HMAC's pre-hashing of over-long keys does not arise.)                *)
(***************************************************************************)
RECURSIVE HmacKey(_)
HmacKey(bytes) ==
  IF bytes # <<>> /\ bytes[Len(bytes)] = "NUL"
  THEN HmacKey(SubSeq(bytes, 1, Len(bytes) - 1))
  ELSE bytes

Pbkdf2(passwordBytes, salt) ==
  [kdf |-> "PBKDF2-SHA-256", iterations |-> 310000,
   key |-> HmacKey(passwordBytes), salt |-> salt]

deriveKey(password, salt) ==
  [name |-> "AES-GCM", length |-> 256, bits |-> Pbkdf2(TextEncode(password), salt)]

deriveAuthKeyNoDomain(password, salt) == Pbkdf2(TextEncode(password), salt)

deriveAuthKey(password, salt) == Pbkdf2(TextEncode(password \o <<"|auth">>), salt)

sha256(str) == [sha256 |-> str]

getAuthKeyHash(password, salt) == sha256([hex |-> deriveAuthKey(password, salt)])

(***************************************************************************)
(* AES-GCM (crypto.subtle.encrypt / decrypt).  Decryption verifies the     *)
(* tag: it fails with an OperationError unless key and iv are the ones the *)
(* ciphertext was produced with and no byte was altered.  (The variant of  *)
(* encryption is a mode that ignores the iv.)                              *)
(***************************************************************************)
AesGcmEncryptIvless(key, iv, plaintext) ==
  [key |-> key, iv |-> 0, pt |-> plaintext, tampered |-> FALSE]

AesGcmEncrypt(key, iv, plaintext) ==
  [key |-> key, iv |-> iv, pt |-> plaintext, tampered |-> FALSE]

(* variant: an unauthenticated mode, where a wrong key yields garbage      *)
AesDecryptUnauthenticated(key, iv, ciphertext) ==
  IF ciphertext.key = key /\ ciphertext.iv = iv /\ ~ciphertext.tampered
  THEN Ok(ciphertext.pt)
  ELSE Ok(<<"garbage">>)

AesGcmDecrypt(key, iv, ciphertext) ==
  IF ciphertext.key = key /\ ciphertext.iv = iv /\ ~ciphertext.tampered
  THEN Ok(ciphertext.pt)
  ELSE Err("OperationError")

Corrupt(ciphertext) == [ciphertext EXCEPT !.tampered = TRUE]

(***************************************************************************)
(* SymmetricEnvelope (crypto.ts: encryptEntry, decryptEntry) and           *)
(* PrivateKeyCustody (crypto.ts: encryptPrivateKey, decryptPrivateKey).    *)
(* The random 96-bit iv is an explicit argument.                           *)
(***************************************************************************)
encryptEntry(entry, password, salt, iv) ==
  LET key == deriveKey(password, salt)
      plaintext == TextEncode(JsonStringify(entry))
  IN [ciphertext |-> AesGcmEncrypt(key, iv, plaintext), iv |-> iv]

decryptEntry(encrypted, password, salt) ==
  LET key == deriveKey(password, salt)
      decrypted == AesGcmDecrypt(key, encrypted.iv, encrypted.ciphertext)
  IN IF decrypted.ok THEN JsonParse(TextDecode(decrypted.val)) ELSE decrypted

(* variant: wraps the key without its private exponent                     *)
encryptPrivateKeyPublicHalf(privateKey, password, salt, iv) ==
  LET key == deriveKey(password, salt)
      half == [k \in DOMAIN privateKey \ {"d"} |-> privateKey[k]]
      plaintext == TextEncode(JsonStringify(half))
  IN [ciphertext |-> AesGcmEncrypt(key, iv, plaintext), iv |-> iv]

encryptPrivateKey(privateKey, password, salt, iv) ==
  LET key == deriveKey(password, salt)
      plaintext == TextEncode(JsonStringify(privateKey))
  IN [ciphertext |-> AesGcmEncrypt(key, iv, plaintext), iv |-> iv]

decryptPrivateKey(encrypted, password, salt) ==
  LET key == deriveKey(password, salt)
      decrypted == AesGcmDecrypt(key, encrypted.iv, encrypted.ciphertext)
  IN IF decrypted.ok THEN JsonParse(TextDecode(decrypted.val)) ELSE decrypted

(***************************************************************************)
(* RSA-OAEP key pairs (crypto.ts: generateRSAKeyPair), exported as JWK.    *)
(* Key pair i has modulus "n<i>"; the private JWK also carries "d".        *)
(***************************************************************************)
NumKeyPairs == 2
KeyIds == 1..NumKeyPairs
KeyChar(i) == IF i = 1 THEN "1" ELSE IF i = 2 THEN "2" ELSE IF i = 3 THEN "3" ELSE "4"

PublicJwk(i) == [kty |-> Str(<<"R", "S", "A">>), n |-> Str(<<KeyChar(i)>>)]
PrivateJwk(i) == [kty |-> Str(<<"R", "S", "A">>), n |-> Str(<<KeyChar(i)>>),
                  d |-> Str(<<"d", KeyChar(i)>>)]

generateRSAKeyPair(i) == [publicKey |-> PublicJwk(i), privateKey |-> PrivateJwk(i)]

(***************************************************************************)
(* AsymmetricEnvelope (calendar-crypto: encryptField, decryptField;        *)
(* crypto.ts: decryptEmailField).  Envelope components travel as base64    *)
(* text; a component of a stored envelope is a base64 string, the empty    *)
(* string or undefined.                                                    *)
(***************************************************************************)
NumAesKeys == 2

(* a base64 string carries the buffer it encodes; a buffer is <<>> (no     *)
(* bytes) or <<x>> (the bytes of the term x); "" encodes the empty buffer  *)
B64(buffer) == [t |-> "b64", v |-> buffer]
EmptyString == B64(<<>>)

(* JavaScript truthiness of an envelope component                          *)
Truthy(v) == v.t = "b64" /\ v.v # <<>>
(* v.length === 0                                                          *)
LengthZero(v) == v.t = "b64" /\ v.v = <<>>

arrayBufferToBase64(buffer) == B64(buffer)
(* atob(undefined) is atob("undefined"), which is not base64               *)
base64ToArrayBuffer(base64) ==
  IF base64.t = "b64" THEN Ok(base64.v) ELSE Err("InvalidCharacterError")

generateAesKey(k) == [name |-> "AES-GCM", length |-> 256, bits |-> [raw |-> k]]
exportRawKey(key) == key.bits
importRawAesKey(raw) == [name |-> "AES-GCM", length |-> 256, bits |-> raw]

importPublicKey(jwk) == IF "n" \in DOMAIN jwk THEN Ok(jwk) ELSE Err("DataError")
importPrivateKey(jwk) == IF "d" \in DOMAIN jwk THEN Ok(jwk) ELSE Err("DataError")

RsaOaepEncrypt(publicKey, data) == [rsa |-> publicKey.n, data |-> data, tampered |-> FALSE]
RsaOaepDecrypt(privateKeyObj, buffer) ==
  IF buffer # <<>> /\ buffer[1].rsa = privateKeyObj.n /\ ~buffer[1].tampered
  THEN Ok(buffer[1].data)
  ELSE Err("OperationError")

encryptField(plaintext, publicKeyJwk, k, iv) ==
  LET aesKey == generateAesKey(k)
      encryptedData == AesGcmEncrypt(aesKey, iv, TextEncode(plaintext))
      aesKeyRaw == exportRawKey(aesKey)
      publicKey == importPublicKey(publicKeyJwk).val
      encryptedKey == RsaOaepEncrypt(publicKey, aesKeyRaw)
  IN [ciphertext |-> arrayBufferToBase64(<<encryptedData>>),
      iv |-> arrayBufferToBase64(<<iv>>),
      encryptedKey |-> arrayBufferToBase64(<<encryptedKey>>)]

(* The hybrid decryption both decryptField and decryptEmailField perform   *)
(* once the envelope has passed validation.  A run is [res, ops]: the      *)
(* outcome and the cryptographic operations invoked, in order.             *)
Run(res, ops) == [res |-> res, ops |-> ops]

HybridDecrypt(encrypted, privateKeyJwk) ==
  LET privateKey == importPrivateKey(privateKeyJwk)
      encryptedKeyBuffer == base64ToArrayBuffer(encrypted.encryptedKey)
      ciphertextBuffer == base64ToArrayBuffer(encrypted.ciphertext)
      ivBuffer == base64ToArrayBuffer(encrypted.iv)
      aesKeyBuffer == RsaOaepDecrypt(privateKey.val, encryptedKeyBuffer.val)
      aesKey == importRawAesKey(aesKeyBuffer.val)
      data == IF ciphertextBuffer.val = <<>> \/ ivBuffer.val = <<>>
              THEN Err("OperationError")
              ELSE AesGcmDecrypt(aesKey, ivBuffer.val[1], ciphertextBuffer.val[1])
  IN IF ~privateKey.ok THEN Run(privateKey, <<"importKey:jwk">>)
     ELSE IF ~encryptedKeyBuffer.ok THEN Run(encryptedKeyBuffer, <<"importKey:jwk">>)
     ELSE IF ~aesKeyBuffer.ok
       THEN Run(aesKeyBuffer, <<"importKey:jwk", "decrypt:RSA-OAEP">>)
     ELSE IF ~ciphertextBuffer.ok
       THEN Run(ciphertextBuffer, <<"importKey:jwk", "decrypt:RSA-OAEP", "importKey:raw">>)
     ELSE IF ~ivBuffer.ok
       THEN Run(ivBuffer, <<"importKey:jwk", "decrypt:RSA-OAEP", "importKey:raw">>)
     ELSE Run(IF data.ok THEN Ok(TextDecode(data.val)) ELSE data,
              <<"importKey:jwk", "decrypt:RSA-OAEP", "importKey:raw", "decrypt:AES-GCM">>)

(* variant: the validation forgets the iv                                  *)
decryptFieldNoIvCheck(encrypted, privateKeyJwk) ==
  IF encrypted = None
     \/ ~Truthy(encrypted[1].encryptedKey)
     \/ ~Truthy(encrypted[1].ciphertext)
  THEN Run(Err("Invalid encrypted field structure"), <<>>)
  ELSE HybridDecrypt(encrypted[1], privateKeyJwk)

(* a missing envelope (null / undefined) is None                           *)
decryptField(encrypted, privateKeyJwk) ==
  IF encrypted = None
     \/ ~Truthy(encrypted[1].encryptedKey)
     \/ ~Truthy(encrypted[1].ciphertext)
     \/ ~Truthy(encrypted[1].iv)
  THEN Run(Err("Invalid encrypted field structure"), <<>>)
  ELSE IF LengthZero(encrypted[1].encryptedKey) \/ LengthZero(encrypted[1].ciphertext)
  THEN Run(Err("Encrypted data is empty"), <<>>)
  ELSE HybridDecrypt(encrypted[1], privateKeyJwk)

decryptEmailField(encrypted, privateKeyJwk) ==
  IF encrypted = None
  THEN Run(Err("No encrypted data provided"), <<>>)
  ELSE IF ~Truthy(encrypted[1].encryptedKey)
          \/ ~Truthy(encrypted[1].ciphertext)
          \/ ~Truthy(encrypted[1].iv)
  THEN Run(Err("Invalid encrypted field structure: missing required properties"), <<>>)
  ELSE IF LengthZero(encrypted[1].encryptedKey) \/ LengthZero(encrypted[1].ciphertext)
  THEN Run(Err("Encrypted data is empty"), <<>>)
  ELSE HybridDecrypt(encrypted[1], privateKeyJwk)

(* the errors raised by the structural validation of an envelope           *)
InvalidEnvelopeErrors ==
  {"Invalid encrypted field structure",
   "No encrypted data provided",
   "Invalid encrypted field structure: missing required properties",
   "Encrypted data is empty"}

(***************************************************************************)
(* Calendar decryption (calendar-crypto: decryptCalendar, decryptEvent,    *)
(* decryptCalendars, decryptEvents).  A field of a stored record is None   *)
(* (null / undefined) or Some(envelope).  Each operator yields, besides    *)
(* its result, the console lines it writes and the envelopes it hands to   *)
(* decryptField, in order.                                                 *)
(***************************************************************************)
LogLine(msg, id) == [msg |-> msg, id |-> id]

decryptCalendar(calendar, privateKeyJwk) ==
  LET name == decryptField(calendar.name, privateKeyJwk)
  IN [res |-> IF name.res.ok
              THEN Ok([_id |-> calendar._id, name |-> name.res.val])
              ELSE name.res,
      log |-> <<>>,
      calls |-> <<calendar.name>>]

decryptEvent(event, privateKeyJwk) ==
  LET title == decryptField(event.title, privateKeyJwk)
      description == decryptField(event.description, privateKeyJwk)
      location == decryptField(event.location, privateKeyJwk)
      hasDescription == event.description # None
      hasLocation == event.location # None
  IN IF ~title.res.ok
     THEN [res |-> title.res, log |-> <<>>, calls |-> <<event.title>>]
     ELSE [res |-> Ok([_id |-> event._id,
                       title |-> title.res.val,
                       description |-> IF hasDescription /\ description.res.ok
                                       THEN description.res.val ELSE <<>>,
                       location |-> IF hasLocation /\ location.res.ok
                                    THEN location.res.val ELSE <<>>]),
           log |-> (IF hasDescription /\ ~description.res.ok
                    THEN <<LogLine("Failed to decrypt event description:", None)>>
                    ELSE <<>>)
                   \o (IF hasLocation /\ ~location.res.ok
                       THEN <<LogLine("Failed to decrypt event location:", None)>>
                       ELSE <<>>),
           calls |-> <<event.title>>
                     \o (IF hasDescription THEN <<event.description>> ELSE <<>>)
                     \o (IF hasLocation THEN <<event.location>> ELSE <<>>)]

(* the loop shared by decryptEvents and decryptCalendars: every record is  *)
(* decrypted inside its own try / catch                                    *)
RECURSIVE DecryptEach(_, _, _, _)
DecryptEach(records, privateKeyJwk, isEvent, acc) ==
  IF records = <<>> THEN acc
  ELSE LET r == IF isEvent THEN decryptEvent(records[1], privateKeyJwk)
                ELSE decryptCalendar(records[1], privateKeyJwk)
           msg == IF isEvent THEN "Failed to decrypt event:" ELSE "Failed to decrypt calendar:"
       IN DecryptEach(Tail(records), privateKeyJwk, isEvent,
            [decrypted |-> IF r.res.ok THEN Append(acc.decrypted, r.res.val)
                           ELSE acc.decrypted,
             log |-> acc.log \o r.log
                     \o (IF r.res.ok THEN <<>>
                         ELSE <<LogLine(msg, Some(records[1]._id))>>),
             calls |-> acc.calls \o r.calls,
             thrown |-> acc.thrown])

NoOutput == [decrypted |-> <<>>, log |-> <<>>, calls |-> <<>>, thrown |-> None]

decryptEvents(events, privateKeyJwk) == DecryptEach(events, privateKeyJwk, TRUE, NoOutput)

decryptCalendars(calendars, privateKeyJwk) ==
  DecryptEach(calendars, privateKeyJwk, FALSE, NoOutput)

(***************************************************************************)
(* The alias-loading loop (aliases/page.tsx loadAliases, after the list    *)
(* was fetched): decryptEntry per alias inside its own try / catch.        *)
(***************************************************************************)
RECURSIVE DecryptAliases(_, _, _, _)
DecryptAliases(aliasesData, masterPassword, saltBytes, acc) ==
  IF aliasesData = <<>> THEN acc
  ELSE LET alias == aliasesData[1]
           d == decryptEntry([ciphertext |-> alias.ciphertext, iv |-> alias.iv],
                             masterPassword, saltBytes)
       IN DecryptAliases(Tail(aliasesData), masterPassword, saltBytes,
            [decrypted |-> IF d.ok
                           THEN Append(acc.decrypted, [_id |-> alias._id, entry |-> d.val])
                           ELSE acc.decrypted,
             log |-> acc.log \o (IF d.ok THEN <<>>
                                 ELSE <<LogLine("Failed to decrypt alias", Some(alias._id))>>),
             calls |-> acc.calls,
             thrown |-> acc.thrown])

(***************************************************************************)
(* Inbox (inbox page: hasValidEncryptedData, handleSelectEmail) and        *)
(* crypto.ts decryptEmail.  A field of an email is a plain string          *)
(* (k = "string"), an envelope object (k = "object") or null.              *)
(***************************************************************************)
PlainField(chars) == [k |-> "string", v |-> <<chars>>]
ObjectField(envelope) == [k |-> "object", v |-> <<envelope>>]
NullField == [k |-> "null", v |-> <<>>]

hasValidEncryptedData(f) ==
  /\ f.k = "object"
  /\ Truthy(f.v[1].ciphertext) /\ Truthy(f.v[1].iv) /\ Truthy(f.v[1].encryptedKey)
  /\ ~LengthZero(f.v[1].ciphertext)

(* what decryptEmailField sees when handed the field "as" an envelope: a   *)
(* string has none of the three properties                                 *)
AsEnvelope(f) ==
  CASE f.k = "object" -> Some(f.v[1])
    [] f.k = "null" -> None
    [] OTHER -> Some([ciphertext |-> VUndef, iv |-> VUndef, encryptedKey |-> VUndef])

decryptEmail(email, privateKeyJwk) ==
  LET subject == decryptEmailField(AsEnvelope(email.subject), privateKeyJwk)
      bodyPlain == decryptEmailField(AsEnvelope(email.bodyPlain), privateKeyJwk)
      hasHtml == email.bodyHtml.k # "null"
      bodyHtml == decryptEmailField(AsEnvelope(email.bodyHtml), privateKeyJwk)
  IN IF ~subject.res.ok
     THEN [res |-> subject.res, calls |-> <<AsEnvelope(email.subject)>>]
     ELSE IF ~bodyPlain.res.ok
     THEN [res |-> bodyPlain.res,
           calls |-> <<AsEnvelope(email.subject), AsEnvelope(email.bodyPlain)>>]
     ELSE IF hasHtml /\ ~bodyHtml.res.ok
     THEN [res |-> bodyHtml.res,
           calls |-> <<AsEnvelope(email.subject), AsEnvelope(email.bodyPlain),
                       AsEnvelope(email.bodyHtml)>>]
     ELSE [res |-> Ok([subject |-> subject.res.val, bodyPlain |-> bodyPlain.res.val,
                       bodyHtml |-> IF hasHtml THEN bodyHtml.res.val ELSE <<>>]),
           calls |-> <<AsEnvelope(email.subject), AsEnvelope(email.bodyPlain)>>
                     \o (IF hasHtml THEN <<AsEnvelope(email.bodyHtml)>> ELSE <<>>)]

getStringContent(f, fallback) == IF f.k = "string" THEN f.v[1] ELSE fallback

(* handleSelectEmail with the private key the session yields (None when    *)
(* getPrivateKeyForDecryption returns null)                                *)
handleSelectEmail(email, sessionKey) ==
  LET isEncryptedEmail == email.isEncrypted /\ hasValidEncryptedData(email.subject)
      d == decryptEmail(email, sessionKey[1])
  IN IF isEncryptedEmail
     THEN IF sessionKey = None
          THEN [decryptedContent |-> None,
                decryptError |-> Some("Private key not available. Please re-login and unlock your vault."),
                calls |-> <<>>]
          ELSE IF d.res.ok
          THEN [decryptedContent |-> Some(d.res.val), decryptError |-> None, calls |-> d.calls]
          ELSE [decryptedContent |-> None, decryptError |-> Some(d.res.err), calls |-> d.calls]
     ELSE [decryptedContent |->
             Some([subject |-> getStringContent(email.subject, <<"(No subject)">>),
                   bodyPlain |-> getStringContent(email.bodyPlain, <<"(No content available)">>),
                   bodyHtml |-> getStringContent(email.bodyHtml, <<>>)]),
           decryptError |-> None,
           calls |-> <<>>]

(***************************************************************************)
(* Input domains                                                           *)
(***************************************************************************)
Strings == SeqsUpTo({"a", "BOM", "HI", "LO"}, MaxStrLen)
Passwords == SeqsUpTo({"p", "NUL", "HI", "FFFD"}, MaxPwLen) \ {<<>>}
Salts == 1..NumSalts
IVs == 1..NumIVs

EmailValues == {Str(s) : s \in Strings} \cup {VNum, VNull, VUndef, VNaN}
Entries == {[email |-> e] : e \in EmailValues}
             \cup {[email |-> e, domain |-> d] : e \in EmailValues, d \in {Str(<<"a">>), VUndef}}

(* a record JSON can carry: no undefined and no NaN property               *)
Serializable(rec) == \A k \in DOMAIN rec : rec[k].t \in {"str", "num", "null"}

(***************************************************************************)
(* Envelope harness: one record or one private key is encrypted under      *)
(* (password, salt) and then decrypted with a candidate password.          *)
(***************************************************************************)
VARIABLES entry, privateKey, password, salt, encrypted, candidate, decrypted,
          encryptedAgain

envVars == <<entry, privateKey, password, salt, encrypted, candidate, decrypted,
             encryptedAgain>>

(***************************************************************************)
(* Field harness: a string is encrypted to a key pair, the stored envelope *)
(* may lose components (legacy / partial records), and it is decrypted     *)
(* with some private key by decryptField or decryptEmailField.             *)
(***************************************************************************)
VARIABLES plaintext, publicKey, field, fieldPc, decryptor, usedKey, fieldRun

fieldVars == <<plaintext, publicKey, field, fieldPc, decryptor, usedKey, fieldRun>>

(***************************************************************************)
(* Load harness: the records a page received from the server (stored),     *)
(* what they were made from (truth), the one fault the store introduced    *)
(* (fault) and what the page's load produced (output).  inbox is the       *)
(* state of the inbox page's component: the selected email (0 for null),   *)
(* what is shown for it, and the handleSelectEmail calls that are waiting  *)
(* at an await.                                                            *)
(***************************************************************************)
VARIABLES page, truth, stored, fault, loadKey, output, loadPc, inbox

loadVars == <<page, truth, stored, fault, loadKey, output, loadPc, inbox>>

(***************************************************************************)
(* Session storage (auth.ts).  The five items of the tab's sessionStorage  *)
(* are the fields of one record; an absent item is None.  JWKs are stored  *)
(* as their JSON text and parsed on reading; the salt and the wrapped key  *)
(* are arrays of byte values, which JSON carries unchanged.                *)
(***************************************************************************)
EmptySession ==
  [masterPassword |-> None, salt |-> None, publicKey |-> None,
   encryptedPrivateKey |-> None, decryptedPrivateKey |-> None]

setMasterPassword(s, pw) == [s EXCEPT !.masterPassword = Some(pw)]
getMasterPassword(s) == s.masterPassword
setSalt(s, a) == [s EXCEPT !.salt = Some(a)]
getSalt(s) == s.salt
isVaultUnlocked(s) == getMasterPassword(s) # None /\ getSalt(s) # None
setPublicKey(s, key) == [s EXCEPT !.publicKey = Some(JsonStringify(key))]
setEncryptedPrivateKey(s, key) == [s EXCEPT !.encryptedPrivateKey = Some(key)]
getEncryptedPrivateKey(s) == s.encryptedPrivateKey
setDecryptedPrivateKey(s, key) ==
  [s EXCEPT !.decryptedPrivateKey = Some(JsonStringify(key))]
getDecryptedPrivateKey(s) ==
  IF s.decryptedPrivateKey = None THEN None
  ELSE Some(JsonParse(s.decryptedPrivateKey[1]).val)

(* variant: the wipe leaves the unwrapped private key behind               *)
clearAuthDataKeepsKey(s) ==
  [s EXCEPT !.masterPassword = None, !.salt = None, !.publicKey = None,
            !.encryptedPrivateKey = None]

clearAuthData(s) ==
  [s EXCEPT !.masterPassword = None, !.salt = None, !.publicKey = None,
            !.encryptedPrivateKey = None, !.decryptedPrivateKey = None]

(* authApi.logout (api.ts): drops the token and two of the five items      *)
apiLogout(s) == [s EXCEPT !.masterPassword = None, !.salt = None]

(* decryptAndCachePrivateKey after its await: cache on success, swallow    *)
(* the failure otherwise (the variant returns the key without caching it)  *)
cacheUnwrappedNotStored(s, unwrapped) == s

cacheUnwrapped(s, unwrapped) ==
  IF unwrapped.ok THEN setDecryptedPrivateKey(s, unwrapped.val) ELSE s

(***************************************************************************)
(* The authentication collaborator (the REST backend behind api.ts).  It   *)
(* keeps, per account, what registration sent it; it compares verifiers,   *)
(* and it lets the PKI material of an account be set once.                 *)
(***************************************************************************)
Accounts == {"old", "legacy", "new"}
MasterPasswords == {<<"p">>, <<"HI">>}
AccountPasswords == {<<"p">>}

(* the register page submits only when validateForm returns null (of its   *)
(* rules, the one that relates the two secrets)                            *)
validateForm(accountPassword, masterPassword) == masterPassword # accountPassword

(* the JSON body of the request the flow is waiting on, as authApi builds   *)
(* it from the arguments useAuth passes                                    *)
requestBodyPlainSecret(f) ==
  CASE f.pc = "register" ->
         [email |-> f.account, password |-> f.password, salt |-> f.salt,
          authKeyHash |-> getAuthKeyHash(f.masterPassword, f.salt),
          publicKey |-> generateRSAKeyPair(f.keyPair).publicKey,
          encryptedPrivateKey |-> f.wrapped[1]]
    [] f.pc = "login" -> [email |-> f.account, password |-> f.password]
    [] f.pc = "verify" -> [authKeyHash |-> getAuthKeyHash(f.masterPassword, f.salt),
                           masterPassword |-> f.masterPassword]
    [] f.pc = "setupPKI" ->
         [publicKey |-> generateRSAKeyPair(f.keyPair).publicKey,
          encryptedPrivateKey |-> f.wrapped[1]]

requestBody(f) ==
  CASE f.pc = "register" ->
         [email |-> f.account, password |-> f.password, salt |-> f.salt,
          authKeyHash |-> getAuthKeyHash(f.masterPassword, f.salt),
          publicKey |-> generateRSAKeyPair(f.keyPair).publicKey,
          encryptedPrivateKey |-> f.wrapped[1]]
    [] f.pc = "login" -> [email |-> f.account, password |-> f.password]
    [] f.pc = "verify" -> [authKeyHash |-> getAuthKeyHash(f.masterPassword, f.salt)]
    [] f.pc = "setupPKI" ->
         [publicKey |-> generateRSAKeyPair(f.keyPair).publicKey,
          encryptedPrivateKey |-> f.wrapped[1]]

Account(pw, a, pub, wrapped) ==
  [registered |-> TRUE, salt |-> Some(a),
   authKeyHash |-> Some(getAuthKeyHash(pw, a)),
   publicKey |-> pub, encryptedPrivateKey |-> wrapped]

(* generateSalt returns 16 bytes; a salt that no generateSalt of this      *)
(* client drew stands for one of another length                            *)
SaltLength(a) == IF a \in Salts THEN 16 ELSE 8

(* "old" registered with PKI, "legacy" registered before PKI existed (and  *)
(* with a shorter salt), "new" not registered yet                          *)
InitServer ==
  [acct \in Accounts |->
     CASE acct = "old" ->
            Account(<<"p">>, 1, Some(PublicJwk(1)),
                    Some(encryptPrivateKey(PrivateJwk(1), <<"p">>, 1, 1)))
       [] acct = "legacy" -> Account(<<"HI">>, 0, None, None)
       [] OTHER -> [registered |-> FALSE, salt |-> None, authKeyHash |-> None,
                    publicKey |-> None, encryptedPrivateKey |-> None]]

verifyMasterPassword(srv, acct, pw, a) ==
  /\ acct \in Accounts
  /\ srv[acct].registered
  /\ srv[acct].authKeyHash = Some(getAuthKeyHash(pw, a))

setupPKIAllowed(srv, acct) ==
  /\ acct \in Accounts
  /\ srv[acct].registered
  /\ srv[acct].encryptedPrivateKey = None

ServerRejection == "Invalid master password"
RequestFailed == "API request failed"

(***************************************************************************)
(* Session machine (useAuth, the login and register pages, the dashboard). *)
(* Every await on the network or on decryptPrivateKey is a point where     *)
(* another handler may run; flow is the form submission in flight (the     *)
(* pages disable their submit button while one is pending), cacheTask the  *)
(* decryptAndCachePrivateKey a dashboard page started, checkTask the       *)
(* checkAuth a mounting component started.                                 *)
(***************************************************************************)
VARIABLES session, token, server, auth, step, error, flow, cacheTask, checkTask,
          started

sessVars == <<session, token, server, auth, step, error, flow, cacheTask, checkTask,
              started>>

vars == <<envVars, fieldVars, loadVars, sessVars>>

NoFlow ==
  [pc |-> "idle", account |-> "none", password |-> <<>>, masterPassword |-> <<>>,
   salt |-> 0, keyPair |-> 0, wrapped |-> None]

NoTask == [pc |-> "idle", masterPassword |-> <<>>, salt |-> 0, wrapped |-> None]

NoCheck == [pc |-> "idle", account |-> "none"]

SignedOut(loading) ==
  [user |-> "none", isAuthenticated |-> FALSE, isVaultUnlocked |-> FALSE,
   isLoading |-> loading]

SessIdle ==
  /\ session = EmptySession /\ token = None /\ server = InitServer
  /\ auth = SignedOut(FALSE) /\ step = "credentials" /\ error = None
  /\ flow = NoFlow /\ cacheTask = NoTask /\ checkTask = NoCheck
  /\ started = 0

NoFault == [kind |-> "none", idx |-> 0, part |-> "none"]

(* the inbox page as mounted (its useState initial values)                 *)
NoInbox ==
  [selectedEmail |-> 0, decryptedContent |-> None, decryptError |-> None,
   isDecrypting |-> FALSE, calls |-> <<>>]

LoadIdle ==
  /\ page = "none" /\ truth = <<>> /\ stored = <<>> /\ fault = NoFault
  /\ loadKey = None /\ output = None /\ loadPc = "idle"
  /\ inbox = NoInbox

FieldIdle ==
  /\ plaintext = None /\ publicKey = None /\ field = None /\ fieldPc = "new"
  /\ decryptor = None /\ usedKey = None /\ fieldRun = None

EnvIdle ==
  /\ entry = None /\ privateKey = None /\ password = None /\ salt = None
  /\ encrypted = None /\ candidate = None /\ decrypted = None
  /\ encryptedAgain = None

InitEnvelope ==
  /\ \/ entry \in {Some(e) : e \in Entries} /\ privateKey = None
     \/ entry = None /\ privateKey \in {Some(PrivateJwk(i)) : i \in KeyIds}
  /\ password \in {Some(p) : p \in Passwords}
  /\ salt \in {Some(a) : a \in Salts}
  /\ encrypted = None /\ candidate = None /\ decrypted = None
  /\ encryptedAgain = None
  /\ FieldIdle /\ LoadIdle /\ SessIdle

EncryptEntry ==
  /\ entry # None /\ encrypted = None
  /\ \E iv \in IVs : encrypted' = Some(encryptEntry(entry[1], password[1], salt[1], iv))
  /\ UNCHANGED <<entry, privateKey, password, salt, candidate, decrypted>>
  /\ UNCHANGED encryptedAgain
  /\ UNCHANGED <<fieldVars, loadVars, sessVars>>

DecryptEntry ==
  /\ entry # None /\ encrypted # None /\ decrypted = None
  /\ \E p \in Passwords :
       /\ candidate' = Some(p)
       /\ decrypted' = Some(decryptEntry(encrypted[1], p, salt[1]))
  /\ UNCHANGED <<entry, privateKey, password, salt, encrypted, encryptedAgain>>
  /\ UNCHANGED <<fieldVars, loadVars, sessVars>>

EncryptPrivateKey ==
  /\ privateKey # None /\ encrypted = None
  /\ \E iv \in IVs :
       encrypted' = Some(encryptPrivateKey(privateKey[1], password[1], salt[1], iv))
  /\ UNCHANGED <<entry, privateKey, password, salt, candidate, decrypted>>
  /\ UNCHANGED encryptedAgain
  /\ UNCHANGED <<fieldVars, loadVars, sessVars>>

DecryptPrivateKey ==
  /\ privateKey # None /\ encrypted # None /\ decrypted = None
  /\ \E p \in Passwords :
       /\ candidate' = Some(p)
       /\ decrypted' = Some(decryptPrivateKey(encrypted[1], p, salt[1]))
  /\ UNCHANGED <<entry, privateKey, password, salt, encrypted, encryptedAgain>>
  /\ UNCHANGED <<fieldVars, loadVars, sessVars>>

(* the holder of the password, having decrypted the value, encrypts it     *)
(* once more under the same password and salt: the call draws its own iv   *)
EncryptAgain ==
  /\ encrypted # None /\ encryptedAgain = None
  /\ decrypted # None /\ candidate = password
  /\ \E iv \in IVs :
       encryptedAgain' =
         IF entry # None
         THEN Some(encryptEntry(entry[1], password[1], salt[1], iv))
         ELSE Some(encryptPrivateKey(privateKey[1], password[1], salt[1], iv))
  /\ UNCHANGED <<entry, privateKey, password, salt, encrypted, candidate, decrypted>>
  /\ UNCHANGED <<fieldVars, loadVars, sessVars>>

NextEnvelope ==
  \/ EncryptAgain
  \/ EncryptEntry
  \/ DecryptEntry
  \/ EncryptPrivateKey
  \/ DecryptPrivateKey

SpecEnvelope == InitEnvelope /\ [][NextEnvelope]_vars

(***************************************************************************)
(* Field harness actions.  fieldPc: "new" (nothing encrypted yet),         *)
(* "stored" (the envelope is as encryptField returned it), "partial" (the  *)
(* stored envelope lost components), "done" (a decryption was run).        *)
(***************************************************************************)
ComponentStates(v) == {v, EmptyString, VUndef}

InitField ==
  /\ EnvIdle /\ LoadIdle /\ SessIdle
  /\ plaintext \in {Some(p) : p \in Strings}
  /\ publicKey \in {Some(PublicJwk(i)) : i \in KeyIds}
  /\ field = None /\ fieldPc = "new"
  /\ decryptor = None /\ usedKey = None /\ fieldRun = None

EncryptField ==
  /\ fieldPc = "new"
  /\ \E k \in 1..NumAesKeys, iv \in IVs :
       field' = Some(encryptField(plaintext[1], publicKey[1], k, iv))
  /\ fieldPc' = "stored"
  /\ UNCHANGED <<plaintext, publicKey, decryptor, usedKey, fieldRun>>
  /\ UNCHANGED <<envVars, loadVars, sessVars>>

(* the stored envelope comes back partial: components emptied or missing,  *)
(* or no envelope at all                                                   *)
StorePartial ==
  /\ fieldPc = "stored"
  /\ \/ field' = None
     \/ \E c \in ComponentStates(field[1].ciphertext),
           i \in ComponentStates(field[1].iv),
           e \in ComponentStates(field[1].encryptedKey) :
          /\ <<c, i, e>> # <<field[1].ciphertext, field[1].iv, field[1].encryptedKey>>
          /\ field' = Some([ciphertext |-> c, iv |-> i, encryptedKey |-> e])
  /\ fieldPc' = "partial"
  /\ UNCHANGED <<plaintext, publicKey, decryptor, usedKey, fieldRun>>
  /\ UNCHANGED <<envVars, loadVars, sessVars>>

DecryptField ==
  /\ fieldPc \in {"stored", "partial"}
  /\ \E i \in KeyIds :
       /\ usedKey' = Some(PrivateJwk(i))
       /\ fieldRun' = Some(decryptField(field, PrivateJwk(i)))
  /\ decryptor' = Some("decryptField")
  /\ fieldPc' = "done"
  /\ UNCHANGED <<plaintext, publicKey, field>>
  /\ UNCHANGED <<envVars, loadVars, sessVars>>

DecryptEmailField ==
  /\ fieldPc \in {"stored", "partial"}
  /\ \E i \in KeyIds :
       /\ usedKey' = Some(PrivateJwk(i))
       /\ fieldRun' = Some(decryptEmailField(field, PrivateJwk(i)))
  /\ decryptor' = Some("decryptEmailField")
  /\ fieldPc' = "done"
  /\ UNCHANGED <<plaintext, publicKey, field>>
  /\ UNCHANGED <<envVars, loadVars, sessVars>>

NextField ==
  \/ EncryptField
  \/ StorePartial
  \/ DecryptField
  \/ DecryptEmailField

SpecField == InitField /\ [][NextField]_vars

(* the envelope decrypted was whole / lacked a component                   *)
Intact(f) ==
  f # None /\ Truthy(f[1].ciphertext) /\ Truthy(f[1].iv) /\ Truthy(f[1].encryptedKey)

(***************************************************************************)
(* Load harness actions                                                    *)
(***************************************************************************)
MaxBatch == 2
MaxStarted == 4

LoadStrings == {<<>>, <<"a">>}
OptStrings == {None} \cup {Some(x) : x \in LoadStrings}

EventTruths == [title : {<<"a">>}, description : OptStrings, location : OptStrings]
EmailTruths == [isEncrypted : BOOLEAN, subject : {<<"a">>}, bodyPlain : LoadStrings,
                bodyHtml : OptStrings]

BatchesOf(S) == UNION {[1..n -> S] : n \in 1..MaxBatch}

LoadPrivateKey == PrivateJwk(1)
LoadPassword == <<"p">>
LoadSalt == 1

Sealed(x) == encryptField(x, PublicJwk(1), 1, 1)
SealedOpt(o) == IF o = None THEN None ELSE Some(Sealed(o[1]))

StoredEvent(i, t) ==
  [_id |-> i, title |-> Some(Sealed(t.title)),
   description |-> SealedOpt(t.description), location |-> SealedOpt(t.location)]
StoredCalendar(i, t) == [_id |-> i, name |-> Some(Sealed(t.name))]
StoredAlias(i, t) ==
  LET e == encryptEntry(t, LoadPassword, LoadSalt, 1)
  IN [_id |-> i, ciphertext |-> e.ciphertext, iv |-> e.iv]
StoredEmail(i, t) ==
  [_id |-> i, isEncrypted |-> t.isEncrypted,
   subject |-> IF t.isEncrypted THEN ObjectField(Sealed(t.subject))
               ELSE PlainField(t.subject),
   bodyPlain |-> IF t.isEncrypted THEN ObjectField(Sealed(t.bodyPlain))
                 ELSE PlainField(t.bodyPlain),
   bodyHtml |-> IF t.bodyHtml = None THEN NullField
                ELSE IF t.isEncrypted THEN ObjectField(Sealed(t.bodyHtml[1]))
                ELSE PlainField(t.bodyHtml[1])]

InitLoad ==
  /\ EnvIdle /\ FieldIdle /\ SessIdle
  /\ \/ /\ page = "events"
        /\ truth \in BatchesOf(EventTruths)
        /\ stored = [i \in DOMAIN truth |-> StoredEvent(i, truth[i])]
     \/ /\ page = "calendars"
        /\ truth \in BatchesOf([name : LoadStrings])
        /\ stored = [i \in DOMAIN truth |-> StoredCalendar(i, truth[i])]
     \/ /\ page = "aliases"
        /\ truth \in BatchesOf({[email |-> Str(x)] : x \in LoadStrings})
        /\ stored = [i \in DOMAIN truth |-> StoredAlias(i, truth[i])]
     \/ /\ page = "inbox"
        /\ truth \in [1..1 -> EmailTruths]
        /\ stored = [i \in DOMAIN truth |-> StoredEmail(i, truth[i])]
  /\ fault = NoFault /\ loadKey = None /\ output = None /\ loadPc = "idle"
  /\ inbox = NoInbox

(* the envelope-valued parts of a stored record of the page                *)
PartsOf(pg, rec) ==
  CASE pg = "events" ->
         {"title"} \cup (IF rec.description # None THEN {"description"} ELSE {})
                   \cup (IF rec.location # None THEN {"location"} ELSE {})
    [] pg = "calendars" -> {"name"}
    [] pg = "inbox" ->
         {x \in {"subject", "bodyPlain", "bodyHtml"} : rec[x].k = "object"}
    [] OTHER -> {}

CorruptEnvelope(env) ==
  [env EXCEPT !.ciphertext = B64(<<Corrupt(env.ciphertext.v[1])>>)]
LegacyEnvelope(env) == [env EXCEPT !.encryptedKey = EmptyString]

(* one record reaches the client with a corrupted ciphertext byte          *)
CorruptOne ==
  /\ loadPc = "idle" /\ fault = NoFault
  /\ \E i \in DOMAIN stored :
       \/ /\ page = "aliases"
          /\ stored' = [stored EXCEPT ![i].ciphertext = Corrupt(@)]
          /\ fault' = [kind |-> "corrupt", idx |-> i, part |-> "ciphertext"]
       \/ \E part \in PartsOf(page, stored[i]) :
            /\ page \in {"events", "calendars"}
            /\ stored' = [stored EXCEPT ![i][part] = Some(CorruptEnvelope(@[1]))]
            /\ fault' = [kind |-> "corrupt", idx |-> i, part |-> part]
  /\ UNCHANGED <<page, truth, loadKey, output, loadPc, inbox>>
  /\ UNCHANGED <<envVars, fieldVars, sessVars>>

(* one field is a legacy placeholder: envelope-shaped, encryptedKey ""     *)
LegacyOne ==
  /\ loadPc = "idle" /\ fault = NoFault
  /\ \E i \in DOMAIN stored : \E part \in PartsOf(page, stored[i]) :
       /\ stored' = [stored EXCEPT ![i][part] =
                       IF page = "inbox" THEN ObjectField(LegacyEnvelope(@.v[1]))
                       ELSE Some(LegacyEnvelope(@[1]))]
       /\ fault' = [kind |-> "legacy", idx |-> i, part |-> part]
  /\ UNCHANGED <<page, truth, loadKey, output, loadPc, inbox>>
  /\ UNCHANGED <<envVars, fieldVars, sessVars>>

LoadEvents ==
  /\ loadPc = "idle" /\ page = "events"
  /\ loadKey' = Some(LoadPrivateKey)
  /\ output' = Some(decryptEvents(stored, LoadPrivateKey))
  /\ loadPc' = "done"
  /\ UNCHANGED <<page, truth, stored, fault, inbox>>
  /\ UNCHANGED <<envVars, fieldVars, sessVars>>

LoadCalendars ==
  /\ loadPc = "idle" /\ page = "calendars"
  /\ loadKey' = Some(LoadPrivateKey)
  /\ output' = Some(decryptCalendars(stored, LoadPrivateKey))
  /\ loadPc' = "done"
  /\ UNCHANGED <<page, truth, stored, fault, inbox>>
  /\ UNCHANGED <<envVars, fieldVars, sessVars>>

LoadAliases ==
  /\ loadPc = "idle" /\ page = "aliases"
  /\ loadKey' = None
  /\ output' = Some(DecryptAliases(stored, LoadPassword, LoadSalt, NoOutput))
  /\ loadPc' = "done"
  /\ UNCHANGED <<page, truth, stored, fault, inbox>>
  /\ UNCHANGED <<envVars, fieldVars, sessVars>>

SelectEmail ==
  /\ loadPc = "idle" /\ page = "inbox"
  /\ \E k \in {None, Some(LoadPrivateKey)} :
       /\ loadKey' = k
       /\ output' = Some(handleSelectEmail(stored[1], k))
  /\ loadPc' = "done"
  /\ UNCHANGED <<page, truth, stored, fault, inbox>>
  /\ UNCHANGED <<envVars, fieldVars, sessVars>>

NextLoad ==
  \/ CorruptOne
  \/ LegacyOne
  \/ LoadEvents
  \/ LoadCalendars
  \/ LoadAliases
  \/ SelectEmail

SpecLoad == InitLoad /\ [][NextLoad]_vars

(***************************************************************************)
(* Inbox page with two emails listed.  handleSelectEmail runs up to its    *)
(* first await when an email is clicked and resumes when the decryption    *)
(* settles; the list stays clickable in between.                           *)
(***************************************************************************)
InitInbox ==
  /\ EnvIdle /\ FieldIdle /\ SessIdle
  /\ page = "inbox"
  /\ truth \in [1..2 -> EmailTruths]
  /\ stored = [i \in DOMAIN truth |-> StoredEmail(i, truth[i])]
  /\ fault = NoFault /\ loadKey = None /\ output = None /\ loadPc = "idle"
  /\ inbox = NoInbox

(* an email is clicked: the selection and the reset of what is shown; an   *)
(* email that is not encrypted is shown without an await, an encrypted one *)
(* waits for getPrivateKeyForDecryption and decryptEmail                   *)
SelectEmailStart ==
  /\ started < MaxStarted
  /\ \E i \in DOMAIN stored :
       IF stored[i].isEncrypted /\ hasValidEncryptedData(stored[i].subject)
       THEN \E k \in {None, Some(LoadPrivateKey)} :
              inbox' = [selectedEmail |-> i, decryptedContent |-> None,
                        decryptError |-> None, isDecrypting |-> TRUE,
                        calls |-> Append(inbox.calls, [email |-> i, key |-> k])]
       ELSE inbox' = [selectedEmail |-> i,
                      decryptedContent |-> handleSelectEmail(stored[i], None).decryptedContent,
                      decryptError |-> None, isDecrypting |-> FALSE,
                      calls |-> inbox.calls]
  /\ started' = started + 1
  /\ UNCHANGED <<page, truth, stored, fault, loadKey, output, loadPc>>
  /\ UNCHANGED <<session, token, server, auth, step, error, flow, cacheTask, checkTask>>
  /\ UNCHANGED <<envVars, fieldVars>>

(* a waiting call resumes: setDecryptedContent on success, setDecryptError *)
(* in the catch, setIsDecrypting(false) in the finally                     *)
SelectEmailSettle ==
  /\ \E n \in DOMAIN inbox.calls :
       LET call == inbox.calls[n]
           r == handleSelectEmail(stored[call.email], call.key)
       IN inbox' = [inbox EXCEPT
                      !.decryptedContent =
                          IF r.decryptedContent # None THEN r.decryptedContent ELSE @,
                      !.decryptError =
                          IF r.decryptedContent # None THEN @ ELSE r.decryptError,
                      !.isDecrypting = FALSE,
                      !.calls = [m \in 1..(Len(@) - 1) |->
                                   IF m < n THEN @[m] ELSE @[m + 1]]]
  /\ UNCHANGED <<page, truth, stored, fault, loadKey, output, loadPc>>
  /\ UNCHANGED <<envVars, fieldVars, sessVars>>

NextInbox ==
  \/ SelectEmailStart
  \/ SelectEmailSettle

SpecInbox == InitInbox /\ [][NextInbox]_vars

(* what a page shows for record i when everything decrypts                 *)
OrEmpty(o) == IF o = None THEN <<>> ELSE o[1]
Expected(i) ==
  CASE page = "events" ->
         [_id |-> i, title |-> truth[i].title,
          description |-> OrEmpty(truth[i].description),
          location |-> OrEmpty(truth[i].location)]
    [] page = "calendars" -> [_id |-> i, name |-> truth[i].name]
    [] page = "aliases" -> [_id |-> i, entry |-> truth[i]]

RECURSIVE Without(_, _)
Without(seq, x) ==
  IF seq = <<>> THEN <<>>
  ELSE (IF seq[1] = x THEN <<>> ELSE <<seq[1]>>) \o Without(Tail(seq), x)


(***************************************************************************)
(* Session machine: actions                                                *)
(***************************************************************************)
InitSession ==
  /\ EnvIdle /\ FieldIdle /\ LoadIdle
  /\ SessIdle

TokenAccount == IF token = None THEN "none" ELSE token[1]

(* DashboardLayout renders the pages and the Sidebar only for a session    *)
(* that holds a token, a master password and a salt                        *)
DashboardShown == token # None /\ isVaultUnlocked(session)

(* getMe answered: the unlocked flag is read from session storage          *)
CheckAuthDone ==
  /\ checkTask.pc = "getMe"
  /\ server[checkTask.account].registered
  /\ auth' = [user |-> checkTask.account, isAuthenticated |-> TRUE,
              isVaultUnlocked |-> isVaultUnlocked(session), isLoading |-> FALSE]
  /\ checkTask' = NoCheck
  /\ UNCHANGED <<session, token, server, step, error, flow, cacheTask>>
  /\ UNCHANGED <<started, envVars, fieldVars, loadVars>>

(* getMe refused (expired token): the token goes, session storage stays    *)
CheckAuthFailed ==
  /\ checkTask.pc = "getMe"
  /\ token' = None
  /\ auth' = SignedOut(FALSE)
  /\ checkTask' = NoCheck
  /\ UNCHANGED <<session, server, step, error, flow, cacheTask>>
  /\ UNCHANGED <<started, envVars, fieldVars, loadVars>>

(* useAuth.register up to the await on authApi.register                    *)
RegisterStart ==
  /\ started < MaxStarted
  /\ flow.pc = "idle"
  /\ \E apw \in AccountPasswords, pw \in MasterPasswords,
        a \in Salts, k \in KeyIds, iv \in IVs :
       /\ validateForm(apw, pw)
       /\ flow' = [pc |-> "register", account |-> "new", password |-> apw,
                   masterPassword |-> pw, salt |-> a, keyPair |-> k,
                   wrapped |-> Some(encryptPrivateKey(
                                      generateRSAKeyPair(k).privateKey, pw, a, iv))]
  /\ error' = None
  /\ UNCHANGED <<session, token, server, auth, step, cacheTask, checkTask>>
  /\ started' = started + 1
  /\ UNCHANGED <<envVars, fieldVars, loadVars>>

RegisterDone ==
  /\ flow.pc = "register"
  /\ ~server[flow.account].registered
  /\ LET pair == generateRSAKeyPair(flow.keyPair)
     IN /\ server' = [server EXCEPT ![flow.account] =
                        Account(flow.masterPassword, flow.salt,
                                Some(pair.publicKey), flow.wrapped)]
        /\ session' = setDecryptedPrivateKey(
                        setEncryptedPrivateKey(
                          setPublicKey(
                            setMasterPassword(setSalt(session, flow.salt),
                                              flow.masterPassword),
                            pair.publicKey),
                          flow.wrapped[1]),
                        pair.privateKey)
  /\ token' = Some(flow.account)
  /\ auth' = [user |-> flow.account, isAuthenticated |-> TRUE,
              isVaultUnlocked |-> TRUE, isLoading |-> FALSE]
  /\ flow' = NoFlow
  /\ UNCHANGED <<step, error, cacheTask, checkTask>>
  /\ UNCHANGED <<started, envVars, fieldVars, loadVars>>

(* the server refuses the registration: apiRequest throws before           *)
(* register's first write (the variant has stored the salt and the master  *)
(* password before the request)                                            *)
RegisterRejectedAfterWrites ==
  /\ flow.pc = "register"
  /\ server[flow.account].registered
  /\ session' = setMasterPassword(setSalt(session, flow.salt), flow.masterPassword)
  /\ error' = Some(RequestFailed)
  /\ flow' = NoFlow
  /\ UNCHANGED <<token, server, auth, step, cacheTask, checkTask>>
  /\ UNCHANGED <<started, envVars, fieldVars, loadVars>>

RegisterRejected ==
  /\ flow.pc = "register"
  /\ server[flow.account].registered
  /\ error' = Some(RequestFailed)
  /\ flow' = NoFlow
  /\ UNCHANGED <<session, token, server, auth, step, cacheTask, checkTask>>
  /\ UNCHANGED <<started, envVars, fieldVars, loadVars>>

(* the login page mounts: its form starts at the credentials and its       *)
(* useAuth instance runs checkAuth up to the await on getMe                *)
MountLoginPage ==
  /\ started < MaxStarted
  /\ checkTask.pc = "idle"
  /\ step' = "credentials"
  /\ error' = None
  /\ IF token = None
       THEN /\ auth' = SignedOut(FALSE)
            /\ UNCHANGED checkTask
       ELSE /\ auth' = SignedOut(TRUE)
            /\ checkTask' = [pc |-> "getMe", account |-> token[1]]
  /\ UNCHANGED <<session, token, server, flow, cacheTask>>
  /\ started' = started + 1
  /\ UNCHANGED <<envVars, fieldVars, loadVars>>

(* the page renders its form unless it is redirecting to the dashboard     *)
FormShown == ~(auth.isAuthenticated /\ auth.isVaultUnlocked)

(* handleCredentialsSubmit / useAuth.login up to the await                 *)
LoginStart ==
  /\ started < MaxStarted
  /\ flow.pc = "idle"
  /\ step = "credentials"
  /\ FormShown
  /\ \E acct \in Accounts, apw \in AccountPasswords :
       flow' = [NoFlow EXCEPT !.pc = "login", !.account = acct, !.password = apw]
  /\ error' = None
  /\ UNCHANGED <<session, token, server, auth, step, cacheTask, checkTask>>
  /\ started' = started + 1
  /\ UNCHANGED <<envVars, fieldVars, loadVars>>

(* the response is stored item by item; items it lacks keep their value    *)
LoginDone ==
  /\ flow.pc = "login"
  /\ server[flow.account].registered
  /\ LET user == server[flow.account]
         s1 == IF user.salt # None THEN setSalt(session, user.salt[1]) ELSE session
         s2 == IF user.publicKey # None THEN setPublicKey(s1, user.publicKey[1]) ELSE s1
         s3 == IF user.encryptedPrivateKey # None
                 THEN setEncryptedPrivateKey(s2, user.encryptedPrivateKey[1]) ELSE s2
     IN session' = s3
  /\ token' = Some(flow.account)
  /\ auth' = [auth EXCEPT !.user = flow.account, !.isAuthenticated = TRUE,
                          !.isVaultUnlocked = FALSE]
  /\ step' = "master"
  /\ flow' = NoFlow
  /\ UNCHANGED <<server, error, cacheTask, checkTask>>
  /\ UNCHANGED <<started, envVars, fieldVars, loadVars>>

(* unknown account or wrong account password                               *)
LoginRejected ==
  /\ flow.pc = "login"
  /\ error' = Some("Login failed")
  /\ flow' = NoFlow
  /\ UNCHANGED <<session, token, server, auth, step, cacheTask, checkTask>>
  /\ UNCHANGED <<started, envVars, fieldVars, loadVars>>

(* handleMasterPasswordSubmit / useAuth.unlockVault up to the await on     *)
(* authApi.verifyMasterPassword                                            *)
UnlockVaultStart ==
  /\ started < MaxStarted
  /\ flow.pc = "idle"
  /\ step = "master"
  /\ FormShown
  /\ IF getSalt(session) = None
       THEN /\ error' = Some("Salt not found. Please login again.")
            /\ UNCHANGED flow
       ELSE /\ error' = None
            /\ \E pw \in MasterPasswords :
                 flow' = [NoFlow EXCEPT !.pc = "verify", !.account = TokenAccount,
                                        !.masterPassword = pw,
                                        !.salt = getSalt(session)[1]]
  /\ UNCHANGED <<session, token, server, auth, step, cacheTask, checkTask>>
  /\ started' = started + 1
  /\ UNCHANGED <<envVars, fieldVars, loadVars>>

(* the server refuses the verifier: apiRequest throws, unlockVault stops   *)
(* before its first write and the login page shows the message (the       *)
(* variant caches the candidate all the same)                              *)
UnlockVaultRejectedCaching ==
  /\ flow.pc = "verify"
  /\ ~verifyMasterPassword(server, flow.account, flow.masterPassword, flow.salt)
  /\ session' = setMasterPassword(session, flow.masterPassword)
  /\ error' = Some(ServerRejection)
  /\ flow' = NoFlow
  /\ UNCHANGED <<token, server, auth, step, cacheTask, checkTask>>
  /\ UNCHANGED <<started, envVars, fieldVars, loadVars>>

UnlockVaultRejected ==
  /\ flow.pc = "verify"
  /\ ~verifyMasterPassword(server, flow.account, flow.masterPassword, flow.salt)
  /\ error' = Some(ServerRejection)
  /\ flow' = NoFlow
  /\ UNCHANGED <<session, token, server, auth, step, cacheTask, checkTask>>
  /\ UNCHANGED <<started, envVars, fieldVars, loadVars>>

(* accepted, a wrapped key is in the session: the master password is       *)
(* cached and decryptAndCachePrivateKey runs up to its await               *)
UnlockVaultVerified ==
  /\ flow.pc = "verify"
  /\ verifyMasterPassword(server, flow.account, flow.masterPassword, flow.salt)
  /\ LET s1 == setMasterPassword(session, flow.masterPassword)
     IN /\ getEncryptedPrivateKey(s1) # None
        /\ session' = s1
        /\ IF getSalt(s1) = None
             THEN /\ flow' = NoFlow
                  /\ auth' = [auth EXCEPT !.isVaultUnlocked = TRUE]
             ELSE /\ flow' = [flow EXCEPT !.pc = "unwrap",
                                          !.salt = getSalt(s1)[1],
                                          !.wrapped = getEncryptedPrivateKey(s1)]
                  /\ UNCHANGED auth
  /\ UNCHANGED <<token, server, step, error, cacheTask, checkTask>>
  /\ UNCHANGED <<started, envVars, fieldVars, loadVars>>

(* accepted, no wrapped key in the session: the master password is cached, *)
(* a key pair is generated and wrapped, and setupPKI is awaited (the       *)
(* variant wraps under a key derived from the salt alone)                  *)
UnlockVaultFirstUseUnprotected ==
  /\ flow.pc = "verify"
  /\ verifyMasterPassword(server, flow.account, flow.masterPassword, flow.salt)
  /\ LET s1 == setMasterPassword(session, flow.masterPassword)
     IN /\ getEncryptedPrivateKey(s1) = None
        /\ session' = s1
  /\ \E k \in KeyIds, iv \in IVs :
       flow' = [flow EXCEPT !.pc = "setupPKI", !.account = TokenAccount,
                            !.keyPair = k,
                            !.wrapped = Some(encryptPrivateKey(
                                               generateRSAKeyPair(k).privateKey,
                                               <<>>, flow.salt, iv))]
  /\ UNCHANGED <<token, server, auth, step, error, cacheTask, checkTask>>
  /\ UNCHANGED <<started, envVars, fieldVars, loadVars>>

UnlockVaultFirstUse ==
  /\ flow.pc = "verify"
  /\ verifyMasterPassword(server, flow.account, flow.masterPassword, flow.salt)
  /\ LET s1 == setMasterPassword(session, flow.masterPassword)
     IN /\ getEncryptedPrivateKey(s1) = None
        /\ session' = s1
  /\ \E k \in KeyIds, iv \in IVs :
       flow' = [flow EXCEPT !.pc = "setupPKI", !.account = TokenAccount,
                            !.keyPair = k,
                            !.wrapped = Some(encryptPrivateKey(
                                               generateRSAKeyPair(k).privateKey,
                                               flow.masterPassword, flow.salt, iv))]
  /\ UNCHANGED <<token, server, auth, step, error, cacheTask, checkTask>>
  /\ UNCHANGED <<started, envVars, fieldVars, loadVars>>

(* the server stored the keys and echoes the wrapped one                   *)
SetupPKIDone ==
  /\ flow.pc = "setupPKI"
  /\ setupPKIAllowed(server, flow.account)
  /\ LET pair == generateRSAKeyPair(flow.keyPair)
     IN /\ server' = [server EXCEPT ![flow.account].publicKey = Some(pair.publicKey),
                                    ![flow.account].encryptedPrivateKey = flow.wrapped]
        /\ session' = setDecryptedPrivateKey(
                        setEncryptedPrivateKey(setPublicKey(session, pair.publicKey),
                                               flow.wrapped[1]),
                        pair.privateKey)
  /\ auth' = [auth EXCEPT !.isVaultUnlocked = TRUE]
  /\ flow' = NoFlow
  /\ UNCHANGED <<token, step, error, cacheTask, checkTask>>
  /\ UNCHANGED <<started, envVars, fieldVars, loadVars>>

(* the push is refused: apiRequest throws before unlockVault stores any    *)
(* key of the generated pair (the variant keeps the pair in the session)   *)
SetupPKIFailedKeepsPair ==
  /\ flow.pc = "setupPKI"
  /\ ~setupPKIAllowed(server, flow.account)
  /\ session' = setDecryptedPrivateKey(
                  setEncryptedPrivateKey(
                    setPublicKey(session, generateRSAKeyPair(flow.keyPair).publicKey),
                    flow.wrapped[1]),
                  generateRSAKeyPair(flow.keyPair).privateKey)
  /\ error' = Some(RequestFailed)
  /\ flow' = NoFlow
  /\ UNCHANGED <<token, server, auth, step, cacheTask, checkTask>>
  /\ UNCHANGED <<started, envVars, fieldVars, loadVars>>

SetupPKIFailed ==
  /\ flow.pc = "setupPKI"
  /\ ~setupPKIAllowed(server, flow.account)
  /\ error' = Some(RequestFailed)
  /\ flow' = NoFlow
  /\ UNCHANGED <<session, token, server, auth, step, cacheTask, checkTask>>
  /\ UNCHANGED <<started, envVars, fieldVars, loadVars>>

(* decryptAndCachePrivateKey resumes inside unlockVault                    *)
UnwrapDone ==
  /\ flow.pc = "unwrap"
  /\ session' = cacheUnwrapped(session,
                  decryptPrivateKey(flow.wrapped[1], flow.masterPassword, flow.salt))
  /\ auth' = [auth EXCEPT !.isVaultUnlocked = TRUE]
  /\ flow' = NoFlow
  /\ UNCHANGED <<token, server, step, error, cacheTask, checkTask>>
  /\ UNCHANGED <<started, envVars, fieldVars, loadVars>>

(* getPrivateKeyForDecryption called by a dashboard page with nothing      *)
(* cached: decryptAndCachePrivateKey up to its await                       *)
CacheStart ==
  /\ started < MaxStarted
  /\ cacheTask.pc = "idle"
  /\ DashboardShown
  /\ getDecryptedPrivateKey(session) = None
  /\ getEncryptedPrivateKey(session) # None
  /\ cacheTask' = [pc |-> "unwrap", masterPassword |-> getMasterPassword(session)[1],
                   salt |-> getSalt(session)[1],
                   wrapped |-> getEncryptedPrivateKey(session)]
  /\ UNCHANGED <<session, token, server, auth, step, error, flow, checkTask>>
  /\ started' = started + 1
  /\ UNCHANGED <<envVars, fieldVars, loadVars>>

CacheDone ==
  /\ cacheTask.pc = "unwrap"
  /\ session' = cacheUnwrapped(session,
                  decryptPrivateKey(cacheTask.wrapped[1], cacheTask.masterPassword,
                                    cacheTask.salt))
  /\ cacheTask' = NoTask
  /\ UNCHANGED <<token, server, auth, step, error, flow, checkTask>>
  /\ UNCHANGED <<started, envVars, fieldVars, loadVars>>

(* useAuth.logout, from the Sidebar or the settings page: synchronous;     *)
(* promises already pending are not cancelled (the variant is a logout     *)
(* that yields between authApi.logout and clearAuthData)                   *)
LogoutInterrupted ==
  /\ started < MaxStarted
  /\ isVaultUnlocked(session)
  /\ token' = None
  /\ session' = apiLogout(session)
  /\ auth' = SignedOut(FALSE)
  /\ step' = "credentials"
  /\ error' = None
  /\ UNCHANGED <<server, flow, cacheTask, checkTask>>
  /\ started' = started + 1
  /\ UNCHANGED <<envVars, fieldVars, loadVars>>

Logout ==
  /\ started < MaxStarted
  /\ isVaultUnlocked(session)
  /\ token' = None
  /\ session' = clearAuthData(apiLogout(session))
  /\ auth' = SignedOut(FALSE)
  /\ step' = "credentials"
  /\ error' = None
  /\ UNCHANGED <<server, flow, cacheTask, checkTask>>
  /\ started' = started + 1
  /\ UNCHANGED <<envVars, fieldVars, loadVars>>

(* a dashboard page mounts and loads its list: loadAliases reads the       *)
(* master password and the salt, loadCalendars asks                        *)
(* getPrivateKeyForDecryption for the cached key; either returns when it   *)
(* gets nothing, else keeps what it read and awaits the list request       *)
PageLoadStart ==
  /\ started < MaxStarted
  /\ loadPc = "idle"
  /\ DashboardShown
  /\ \/ /\ page' = "aliases"
        /\ loadKey' = Some([masterPassword |-> getMasterPassword(session)[1],
                            salt |-> getSalt(session)[1]])
     \/ /\ page' = "calendars"
        /\ getDecryptedPrivateKey(session) # None
        /\ loadKey' = getDecryptedPrivateKey(session)
  /\ loadPc' = "fetch"
  /\ UNCHANGED <<truth, stored, fault, output, inbox>>
  /\ UNCHANGED <<session, token, server, auth, step, error, flow, cacheTask, checkTask>>
  /\ started' = started + 1
  /\ UNCHANGED <<envVars, fieldVars>>

(* the list arrives (one record) and its decryption starts with what the   *)
(* load read before the request                                            *)
PageLoadDecrypt ==
  /\ loadPc = "fetch"
  /\ \/ /\ page = "aliases"
        /\ stored' = <<StoredAlias(1, [email |-> Str(<<"a">>)])>>
        /\ output' = Some(DecryptAliases(stored', loadKey[1].masterPassword,
                                         loadKey[1].salt, NoOutput))
     \/ /\ page = "calendars"
        /\ stored' = <<StoredCalendar(1, [name |-> <<"a">>])>>
        /\ output' = Some(decryptCalendars(stored', loadKey[1]))
  /\ loadPc' = "done"
  /\ UNCHANGED <<page, truth, fault, loadKey, inbox>>
  /\ UNCHANGED <<sessVars, envVars, fieldVars>>

NextSession ==
  \/ CheckAuthDone
  \/ CheckAuthFailed
  \/ RegisterStart
  \/ RegisterDone
  \/ RegisterRejected
  \/ MountLoginPage
  \/ LoginStart
  \/ LoginDone
  \/ LoginRejected
  \/ UnlockVaultStart
  \/ UnlockVaultRejected
  \/ UnlockVaultVerified
  \/ UnlockVaultFirstUse
  \/ SetupPKIDone
  \/ SetupPKIFailed
  \/ UnwrapDone
  \/ CacheStart
  \/ CacheDone
  \/ Logout

SpecSession == InitSession /\ [][NextSession]_vars

(* a tab in which register has completed for the account "new": the state  *)
(* RegisterDone leaves, for every choice of register's inputs              *)
InitSignedUp ==
  /\ EnvIdle /\ FieldIdle /\ LoadIdle
  /\ \E pw \in MasterPasswords, a \in Salts, k \in KeyIds, iv \in IVs :
       LET pair == generateRSAKeyPair(k)
           wrapped == encryptPrivateKey(pair.privateKey, pw, a, iv)
       IN /\ server = [InitServer EXCEPT !["new"] =
                         Account(pw, a, Some(pair.publicKey), Some(wrapped))]
          /\ session = setDecryptedPrivateKey(
                         setEncryptedPrivateKey(
                           setPublicKey(
                             setMasterPassword(setSalt(EmptySession, a), pw),
                             pair.publicKey),
                           wrapped),
                         pair.privateKey)
  /\ token = Some("new")
  /\ auth = [user |-> "new", isAuthenticated |-> TRUE,
             isVaultUnlocked |-> TRUE, isLoading |-> FALSE]
  /\ step = "credentials" /\ error = None
  /\ flow = NoFlow /\ cacheTask = NoTask /\ checkTask = NoCheck
  /\ started = 0

NextSignedUp ==
  \/ PageLoadStart
  \/ PageLoadDecrypt
  \/ CheckAuthDone
  \/ CheckAuthFailed
  \/ MountLoginPage
  \/ LoginStart
  \/ LoginDone
  \/ LoginRejected
  \/ UnlockVaultStart
  \/ UnlockVaultRejected
  \/ UnlockVaultVerified
  \/ UnlockVaultFirstUse
  \/ SetupPKIDone
  \/ SetupPKIFailed
  \/ UnwrapDone
  \/ CacheStart
  \/ CacheDone
  \/ Logout

SpecSignedUp == InitSignedUp /\ [][NextSignedUp]_vars

(***************************************************************************)
(* Properties                                                              *)
(***************************************************************************)

(* C1: for every serializable record r, secret s and salt a,               *)
(* decryptEntry(encryptEntry(r, s, a), s, a) returns a record equal to r.  *)
RoundTripEntry ==
  (entry # None /\ decrypted # None /\ candidate = password /\ Serializable(entry[1]))
    => decrypted[1] = Ok(entry[1])

(* a record holding an unpaired surrogate and a BOM came back unchanged    *)
RoundTripEntryWitness ==
  /\ entry = Some([email |-> Str(<<"BOM", "HI">>), domain |-> Str(<<"a">>)])
  /\ candidate = password
  /\ decrypted = Some(Ok(entry[1]))

(* C2: for every string p and generated key pair (pub, priv),              *)
(* decryptField(encryptField(p, pub), priv) returns p.                     *)
RoundTripField ==
  (/\ fieldPc = "done" /\ decryptor = Some("decryptField")
   /\ Intact(field)
   /\ usedKey[1].n = publicKey[1].n)
    => fieldRun[1].res = Ok(plaintext[1])

(* C3: for every generated private key k, secret s and salt a,             *)
(* decryptPrivateKey(encryptPrivateKey(k, s, a), s, a) returns k.          *)
WrapUnwrapPrivateKey ==
  (privateKey # None /\ decrypted # None /\ candidate = password)
    => decrypted[1] = Ok(privateKey[1])

WrapUnwrapPrivateKeyWitness ==
  /\ privateKey = Some(PrivateJwk(2))
  /\ candidate = password
  /\ decrypted = Some(Ok(PrivateJwk(2)))

(* C4 as stated: for every record r, salt a and secrets s2 # s,            *)
(* decryptEntry(encryptEntry(r, s, a), s2, a) fails with the integrity     *)
(* error and never returns a record.                                       *)
WrongSecretRejected ==
  (entry # None /\ decrypted # None /\ candidate # password)
    => decrypted[1] = Err("OperationError")

(* the secrets s and s2 give PBKDF2 different key material: their UTF-8    *)
(* encodings differ in more than trailing NUL bytes                        *)
DifferentKeyMaterial(s, s2) == HmacKey(TextEncode(s)) # HmacKey(TextEncode(s2))

(* C4 amended: for every record r, salt a and secrets s, s2 whose UTF-8    *)
(* encodings differ in more than trailing NUL bytes, decryptEntry of       *)
(* encryptEntry(r, s, a) under (s2, a) fails with the AES-GCM integrity    *)
(* error (OperationError) and never returns a record.                      *)
WrongKeyMaterialRejected ==
  (entry # None /\ decrypted # None /\ DifferentKeyMaterial(password[1], candidate[1]))
    => decrypted[1] = Err("OperationError")

WrongKeyMaterialRejectedWitness ==
  /\ entry # None /\ decrypted # None
  /\ password = Some(<<"p">>) /\ candidate = Some(<<"HI">>)
  /\ decrypted[1] = Err("OperationError")

(* C7: decryptField and decryptEmailField, given an envelope in which any  *)
(* of ciphertext, iv or encryptedKey is missing or empty, fail with an     *)
(* invalid-envelope error before any cryptographic operation is invoked.   *)
InvalidEnvelopeRejectedBeforeCrypto ==
  (fieldPc = "done" /\ ~Intact(field))
    => /\ ~fieldRun[1].res.ok
       /\ fieldRun[1].res.err \in InvalidEnvelopeErrors
       /\ fieldRun[1].ops = <<>>

(* an envelope whose only defect is an empty iv was rejected               *)
InvalidEnvelopeWitness ==
  /\ fieldPc = "done" /\ field # None
  /\ Truthy(field[1].ciphertext) /\ Truthy(field[1].encryptedKey)
  /\ field[1].iv = EmptyString
  /\ decryptor = Some("decryptField")
  /\ fieldRun[1].ops = <<>>

(* C5: in a batch of N records of which exactly one is corrupted, the      *)
(* batch decryption yields exactly the N-1 other records, decrypted, the   *)
(* corrupted one is reported (logged with its id) and not among the        *)
(* results, and no exception escapes.                                      *)
BatchIsolation ==
  (loadPc = "done" /\ page \in {"events", "calendars", "aliases"} /\ fault.kind = "corrupt")
    => LET out == output[1]
           others == Without([i \in DOMAIN stored |-> i], fault.idx)
       IN /\ out.thrown = None
          /\ out.decrypted = [n \in DOMAIN others |-> Expected(others[n])]
          /\ \E l \in DOMAIN out.log : out.log[l].id = Some(fault.idx)

(* C6: no envelope-shaped object whose encryptedKey is empty is ever       *)
(* handed to decryptField / decryptEmailField by a page's load.            *)
EmptyKeyNeverPassed ==
  (loadPc = "done")
    => \A c \in DOMAIN output[1].calls :
         output[1].calls[c] # None => output[1].calls[c][1].encryptedKey # EmptyString

(* the step on which unlockVault learns that the server refused            *)
VerifierRejected ==
  /\ flow.pc = "verify"
  /\ ~verifyMasterPassword(server, flow.account, flow.masterPassword, flow.salt)
  /\ flow'.pc = "idle"

(* C8: an unlockVault attempt whose verifier the server rejects writes     *)
(* nothing to the session, neither when it is submitted nor when the       *)
(* rejection arrives; the locked / unlocked flags stay as they were and    *)
(* the login page receives the server's error.                             *)
RejectedUnlockCachesNothing ==
  [][ /\ (flow.pc = "idle" /\ flow'.pc = "verify") => session' = session
      /\ VerifierRejected =>
           /\ session' = session
           /\ auth' = auth
           /\ isVaultUnlocked(session') = isVaultUnlocked(session)
           /\ error' = Some(ServerRejection) ]_vars

RejectedUnlockWitness ==
  /\ error = Some(ServerRejection)
  /\ flow.pc = "idle"
  /\ session.salt # None
  /\ session.masterPassword = None
  /\ session.decryptedPrivateKey = None
  /\ ~auth.isVaultUnlocked

(* C9: the step taken by logout leaves none of the five session items:     *)
(* master password, salt, public key, wrapped and unwrapped private key.   *)
LogoutClearsSession ==
  [][ Logout =>
        /\ session'.masterPassword = None
        /\ session'.salt = None
        /\ session'.publicKey = None
        /\ session'.encryptedPrivateKey = None
        /\ session'.decryptedPrivateKey = None ]_vars

(* registration filled all five items and a logout has emptied them        *)
LogoutClearsSessionWitness ==
  /\ server["new"].registered
  /\ flow.pc = "idle"
  /\ session = EmptySession
  /\ token = None

(* C10: whenever the unwrapped private key is in the session, the master   *)
(* password and the salt are there too and the wrapped private key in the  *)
(* session unwraps under them to that key.                                 *)
UnwrappedKeyValidated ==
  session.decryptedPrivateKey # None =>
    /\ session.masterPassword # None
    /\ session.salt # None
    /\ session.encryptedPrivateKey # None
    /\ decryptPrivateKey(session.encryptedPrivateKey[1], session.masterPassword[1],
                         session.salt[1])
         = Ok(getDecryptedPrivateKey(session)[1])

(* C11: while the setupPKI push of the first-use setup is pending, the     *)
(* vault is not unlocked, neither for isVaultUnlocked() over the session   *)
(* nor for the hook's isVaultUnlocked flag.                                *)
LockedUntilPushCompletes ==
  flow.pc = "setupPKI" => (~isVaultUnlocked(session) /\ ~auth.isVaultUnlocked)

(* the step on which unlockVault learns that the setupPKI push failed      *)
PushFailed ==
  /\ flow.pc = "setupPKI"
  /\ ~setupPKIAllowed(server, flow.account)
  /\ flow'.pc = "idle"

(* C12: a failed setupPKI push leaves the session as it was, with no       *)
(* public or wrapped private key in it, and the login page gets the error; *)
(* an accepted unlock that finds no wrapped key generates a pair again;    *)
(* and a wrapped private key is in the session only if the server holds    *)
(* it.                                                                     *)
FailedUploadDiscardsPair ==
  [][ /\ PushFailed =>
           /\ session' = session
           /\ session'.publicKey = None
           /\ session'.encryptedPrivateKey = None
           /\ error' = Some(RequestFailed)
      /\ ( /\ flow.pc = "verify" /\ flow'.pc # "verify"
           /\ verifyMasterPassword(server, flow.account, flow.masterPassword, flow.salt)
           /\ getEncryptedPrivateKey(session) = None )
           => (flow'.pc = "setupPKI" /\ flow'.wrapped # None)
      /\ session'.encryptedPrivateKey # None =>
           \E acct \in Accounts :
             server'[acct].encryptedPrivateKey = session'.encryptedPrivateKey
    ]_vars

FailedUploadWitness ==
  /\ flow.pc = "idle"
  /\ error = Some(RequestFailed)
  /\ session.masterPassword # None
  /\ session.publicKey = None
  /\ session.encryptedPrivateKey = None
  /\ session.decryptedPrivateKey = None

(* C13: a key pair is generated only for an account that has no wrapped    *)
(* key on the server (an unlock of an account that has one fetches and     *)
(* unwraps it), and the wrapped key an account has is never replaced by    *)
(* another upload.                                                         *)
KeyPairGeneratedOnce ==
  [][ /\ (flow.pc = "verify" /\ flow'.pc = "setupPKI")
           => server[flow.account].encryptedPrivateKey = None
      /\ \A acct \in Accounts :
           server[acct].encryptedPrivateKey # None
             => server'[acct].encryptedPrivateKey = server[acct].encryptedPrivateKey
    ]_vars

(* unlockVault returns from its existing-key branch                        *)
ExistingKeyUnlockCompletes ==
  /\ flow'.pc = "idle"
  /\ \/ flow.pc = "unwrap"
     \/ /\ flow.pc = "verify"
        /\ verifyMasterPassword(server, flow.account, flow.masterPassword, flow.salt)

(* C14: when unlockVault completes for an account that has a wrapped key,  *)
(* the vault is shown unlocked and the unwrapped private key is cached in  *)
(* the session; getPrivateKeyForDecryption starts decryptPrivateKey only   *)
(* when nothing is cached, so it returns the cached key without            *)
(* unwrapping again.                                                       *)
UnlockCachesUnwrappedKey ==
  [][ /\ ( /\ ExistingKeyUnlockCompletes
           /\ server[flow.account].encryptedPrivateKey # None )
           => /\ auth'.isVaultUnlocked
              /\ getDecryptedPrivateKey(session') # None
      /\ (cacheTask.pc = "idle" /\ cacheTask'.pc = "unwrap")
           => getDecryptedPrivateKey(session) = None
    ]_vars

UnlockCachesWitness ==
  /\ flow.pc = "idle" /\ auth.isVaultUnlocked /\ auth.user = "old"
  /\ token = Some("old") /\ session.masterPassword = Some(<<"p">>)
  /\ getDecryptedPrivateKey(session) # None
  /\ ~server["new"].registered
  /\ cacheTask.pc = "idle"

(* C15: an error of a key-lifecycle operation inside unlockVault reaches   *)
(* the caller: when the unwrap of the stored private key fails, the form   *)
(* that called unlockVault gets the error and the vault is not reported    *)
(* unlocked.                                                               *)
UnwrapFailurePropagates ==
  [][ ( /\ flow.pc = "unwrap" /\ flow'.pc = "idle"
        /\ ~decryptPrivateKey(flow.wrapped[1], flow.masterPassword, flow.salt).ok )
        => (error' # None /\ auth'.isVaultUnlocked = auth.isVaultUnlocked)
    ]_vars

(* C16: the decryption of a dashboard list (decryptEntry over the aliases, *)
(* field decryption with the cached private key) starts only while the     *)
(* master password and the salt are present in the session.                *)
DecryptionNeedsSessionSecrets ==
  [][(loadPc = "fetch" /\ loadPc' = "done") => isVaultUnlocked(session)]_vars

(* C17: a field that failed to decrypt is shown in an explicit "could not  *)
(* decrypt" state and never as an empty value: an event whose description  *)
(* or location (not empty) is corrupted is not listed with that field      *)
(* blank, and an email that yields no content carries a decryption error.  *)
FailedFieldNeverBlank ==
  /\ ( loadPc = "done" /\ page = "events" /\ fault.kind = "corrupt"
       /\ fault.part \in {"description", "location"}
       /\ OrEmpty(truth[fault.idx][fault.part]) # <<>> )
       => \A n \in DOMAIN output[1].decrypted :
            output[1].decrypted[n]._id = fault.idx
              => output[1].decrypted[n][fault.part] # <<>>
  /\ ( loadPc = "done" /\ page = "inbox" /\ output[1].decryptedContent = None )
       => output[1].decryptError # None

RequestInFlight == flow.pc \in {"register", "login", "verify", "setupPKI"}

(* C18: no request sent during register, login or unlockVault carries the  *)
(* master password: the body has no field for it, the account password it  *)
(* carries is a different value, and what is derived from the master       *)
(* password in it is the auth-verifier hash.                               *)
MasterPasswordNeverSent ==
  RequestInFlight =>
    LET body == requestBody(flow)
    IN /\ "masterPassword" \notin DOMAIN body
       /\ "password" \in DOMAIN body => body.password # flow.masterPassword
       /\ "authKeyHash" \in DOMAIN body
            => body.authKeyHash = getAuthKeyHash(flow.masterPassword, flow.salt)
       /\ DOMAIN body \subseteq {"email", "password", "salt", "authKeyHash",
                                 "publicKey", "encryptedPrivateKey"}

MasterPasswordNeverSentWitness ==
  /\ flow.pc = "verify" /\ flow.masterPassword = <<"p">>
  /\ session.masterPassword = Some(<<"HI">>)

(* C19: the private key travels only wrapped: the encryptedPrivateKey of a  *)
(* register or setupPKI request is encryptPrivateKey of the generated      *)
(* private key under the master password and salt of the operation, its    *)
(* publicKey is the public half, and no field is the private key itself.   *)
PrivateKeyOnlyWrapped ==
  flow.pc \in {"register", "setupPKI"} =>
    LET body == requestBody(flow)
        pair == generateRSAKeyPair(flow.keyPair)
    IN /\ \E iv \in IVs :
            body.encryptedPrivateKey =
              encryptPrivateKey(pair.privateKey, flow.masterPassword, flow.salt, iv)
       /\ body.publicKey = pair.publicKey
       /\ "d" \notin DOMAIN body.publicKey
       /\ \A k \in DOMAIN body \ {"email", "password", "salt", "authKeyHash"} :
            body[k] # pair.privateKey

PrivateKeyOnlyWrappedWitness ==
  /\ flow.pc = "setupPKI" /\ flow.account = "legacy"
  /\ flow.masterPassword = <<"HI">> /\ flow.keyPair = 2

ResultsDiscardedAfterLock ==
  [][ (loadPc = "fetch" /\ loadPc' = "done" /\ ~isVaultUnlocked(session))
        => output'[1].decrypted = <<>> ]_vars

(* C23: the writers replace the key-bearing session state as a whole: no   *)
(* state pairs the public key of one session with the unwrapped private   *)
(* key of another.                                                         *)
KeyStateOfOneSession ==
  (session.publicKey # None /\ session.decryptedPrivateKey # None)
    => \E k \in KeyIds :
         /\ session.publicKey = Some(JsonStringify(PublicJwk(k)))
         /\ session.decryptedPrivateKey = Some(JsonStringify(PrivateJwk(k)))

SessionItems ==
  {"masterPassword", "salt", "publicKey", "encryptedPrivateKey", "decryptedPrivateKey"}

(* C24: the wipe is one atomic step: a step that removes any of the five   *)
(* session items leaves none of them, so no task sees a session from       *)
(* which some but not all of them have been cleared.                       *)
WipeIsAtomic ==
  [][ (\E i \in SessionItems : session[i] # None /\ session'[i] = None)
        => session' = EmptySession ]_vars

WipeIsAtomicWitness ==
  /\ session = EmptySession /\ token = None
  /\ server["new"].registered
  /\ error = None
  /\ flow.pc = "idle" /\ cacheTask.pc = "idle"

(* C25: a salt reaches deriveKey / deriveAuthKey only after its caller     *)
(* found it to be 16 bytes long: whenever register or unlockVault has      *)
(* derived a verifier or a key, the salt it used has 16 bytes.             *)
SaltValidatedBeforeDerivation ==
  flow.pc \in {"register", "verify", "setupPKI", "unwrap"} => SaltLength(flow.salt) = 16

(* C26: from the state logout leaves (no token, an empty session), and     *)
(* unless a login or register is being completed, no step puts a master    *)
(* password, a public key or an unwrapped private key into session         *)
(* storage, whatever was in flight when logout ran.                        *)
NothingWrittenBackAfterLogout ==
  [][ (token = None /\ session = EmptySession /\ flow.pc \notin {"login", "register"})
        => /\ session'.masterPassword = None
           /\ session'.publicKey = None
           /\ session'.decryptedPrivateKey = None ]_vars

(* C27: whenever isVaultUnlocked() holds of the session, the cached master *)
(* password is one whose verifier the server accepts for an account that   *)
(* has the cached salt.                                                    *)
UnlockedMeansVerified ==
  isVaultUnlocked(session)
    => \E acct \in Accounts :
         /\ server[acct].registered
         /\ server[acct].salt = getSalt(session)
         /\ verifyMasterPassword(server, acct, getMasterPassword(session)[1],
                                 getSalt(session)[1])

(* C28: in every state whose session holds all five items, the cached      *)
(* wrapped key unwraps under the cached master password and salt to the    *)
(* cached unwrapped key, and the cached public key is the public half of   *)
(* that key.                                                               *)
CachedKeysConsistent ==
  (\A i \in DOMAIN session : session[i] # None)
    => LET unwrapped == decryptPrivateKey(getEncryptedPrivateKey(session)[1],
                                          getMasterPassword(session)[1],
                                          getSalt(session)[1])
       IN /\ unwrapped.ok
          /\ Some(unwrapped.val) = getDecryptedPrivateKey(session)
          /\ session.publicKey =
               Some(JsonStringify([k \in DOMAIN unwrapped.val \ {"d"} |->
                                     unwrapped.val[k]]))

(* C29: a register whose request the server refuses leaves the session     *)
(* storage, the token and the authenticated / unlocked flags exactly as    *)
(* they were, and its caller gets the error.                               *)
FailedRegisterChangesNothing ==
  [][ ( /\ flow.pc = "register" /\ flow'.pc = "idle"
        /\ server[flow.account].registered )
        => /\ session' = session
           /\ token' = token
           /\ auth' = auth
           /\ server' = server
           /\ error' # None ]_vars

FailedRegisterWitness ==
  /\ flow.pc = "idle" /\ error = Some(RequestFailed)
  /\ session = EmptySession /\ token = None
  /\ ~auth.isAuthenticated /\ ~auth.isVaultUnlocked
  /\ server["new"].registered

(* C30: whatever the inbox shows for the selected email, content or error, *)
(* is what selecting that email produces, also when another email was      *)
(* selected while a decryption was still waiting.                          *)
ContentOfSelectedEmail ==
  inbox.selectedEmail # 0
    => LET email == stored[inbox.selectedEmail]
       IN /\ inbox.decryptedContent # None
               => inbox.decryptedContent
                    = handleSelectEmail(email, Some(LoadPrivateKey)).decryptedContent
          /\ inbox.decryptError # None
               => \E k \in {None, Some(LoadPrivateKey)} :
                    inbox.decryptError = handleSelectEmail(email, k).decryptError

====
